---------------------------- MODULE Spec2Model ----------------------------
(***************************************************************************)
(* A model of covest: the coverage models' bound clipping                  *)
(* (src/covest/models.py), the grid initializer, the adaptive grid         *)
(* refiner and the estimator's orchestration (src/covest.py).              *)
(*                                                                         *)
(* Numbers are fixed point.  A parameter (coverage, error rate, q1, q2, q) *)
(* is an integer count of thousandths (PQ), an objective value an integer  *)
(* count of hundredths (OQ), and a multiplicative step an integer count of *)
(* ten-thousandths (SQ).  An optional value (Python's None or a number) is *)
(* the empty sequence or a one-element sequence.                           *)
(***************************************************************************)
EXTENDS Integers, Sequences, FiniteSets, TLC

VARIABLES
    m_cls,      \* the model class: "BasicModel" or "RepeatsModel"
    m_max_cov,  \* the max_cov the model was constructed with: None or Some(bound)
    bounds,     \* model.bounds
    hist,       \* the histogram, as the parameters of the likelihood surface
    m_args,     \* the caller's vector given to compute_loglikelihood
    m_passed,   \* the vector compute_loglikelihood hands to compute_probabilities
    m_ll,       \* the value compute_loglikelihood returned
    m_pc,       \* compute_loglikelihood's position: "idle", "call", "fitted", "returned"
    ig_guess,   \* initial_grid's initial_guess
    ig_count,   \* initial_grid's count
    ig_fix,     \* initial_grid's fix: None, or Some(mask)
    ig_grid,    \* the list initial_grid returned
    ig_pc,      \* initial_grid's position: "idle", "call", "returned"
    fix,        \* the estimator's fix mask, also optimize_grid's fix: None or Some(mask)
    err_scale,  \* the estimator's err_scale
    maximize,   \* optimize_grid's maximize
    g_guess,    \* optimize_grid's initial_guess
    g_pc,       \* optimize_grid's position
    min_val,    \* optimize_grid's min_val
    min_args,   \* optimize_grid's min_args
    step,       \* optimize_grid's step
    diff,       \* optimize_grid's diff
    n_iter,     \* optimize_grid's n_iter
    grid,       \* optimize_grid's grid of the current iteration
    g_res,      \* per grid point, the value its worker returned (None: still running)
    g_k,        \* the position of the reduction loop in zip(grid, res)
    g_ret,      \* what optimize_grid returned: None or Some(vector)
    g_run,      \* SpecGrid: 1 in the first run, 2 in the run started from its result
    g_first,    \* SpecGrid: what the first run returned
    intr,       \* where a KeyboardInterrupt was delivered ("none": nowhere yet)
    guess,      \* compute_coverage's guess
    grid_search_type,  \* compute_coverage's grid_search_type: "none", "pre", "post"
    pc,         \* compute_coverage's position
    r,          \* compute_coverage's r
    success,    \* compute_coverage's success
    min_r,      \* compute_coverage's min_r: None or Some(value)
    params,     \* compute_coverage's params, the starting points
    results,    \* per starting point, what its worker returned (None: still running)
    res_idx,    \* the position of the loop over results
    ret         \* what compute_coverage returned: None or Some(vector)

modelVars == <<m_args, m_passed, m_ll, m_pc>>
igVars == <<ig_guess, ig_count, ig_fix, ig_grid, ig_pc>>
envVars == <<m_cls, m_max_cov, bounds, hist>>
estVars == <<fix, err_scale>>
gridVars == <<maximize, g_guess, g_pc, min_val, min_args, step, diff, n_iter, grid,
              g_res, g_k, g_ret, g_run, g_first>>
ccVars == <<guess, grid_search_type, pc, r, success, min_r, params, results, res_idx,
            ret>>
vars == <<envVars, modelVars, igVars, estVars, gridVars, intr, ccVars>>
\* what optimize_grid leaves alone
gridFrame == <<envVars, modelVars, igVars, estVars, ccVars>>
\* what compute_coverage leaves alone
ccFrame == <<envVars, modelVars, igVars, estVars>>

----------------------------------------------------------------------------
(* Units and optional values *)

PQ == 10 ^ 3
OQ == 10 ^ 2
SQ == 10 ^ 4

None == <<>>
Some(v) == <<v>>
IsNone(o) == o = <<>>
Val(o) == o[1]

Abs(x) == IF x < 0 THEN -x ELSE x
Min2(a, b) == IF a < b THEN a ELSE b
Max2(a, b) == IF a > b THEN a ELSE b
\* a / b for reals, rounded toward zero
Quot(a, b) == IF (a < 0) = (b < 0) THEN Abs(a) \div Abs(b) ELSE -(Abs(a) \div Abs(b))

----------------------------------------------------------------------------
(* src/covest/models.py *)

\* BasicModel.__init__: self.bounds = ((0.01, max_cov), (0, 0.5))
BasicModelBounds(max_cov) ==
    << <<Some(PQ \div 100), max_cov>>, <<Some(0), Some(PQ \div 2)>> >>

\* RepeatsModel.__init__: super().__init__(k, r, hist, tail, max_error=max_error)
\* does not hand max_cov on; then three more bounds are appended.
RepeatsModelBounds(max_cov, min_single_copy_ratio) ==
    BasicModelBounds(None) \o
    << <<Some(min_single_copy_ratio), Some(PQ)>>,
       <<Some(0), Some(PQ)>>, <<Some(0), Some(PQ)>> >>

ModelBounds(cls, max_cov, min_single_copy_ratio) ==
    IF cls = "BasicModel" THEN BasicModelBounds(max_cov)
    ELSE RepeatsModelBounds(max_cov, min_single_copy_ratio)

\* A plausible slip: the upper clip writes the lower bound.
fit_to_bounds_swapped(args, bnds) ==
    [i \in 1..Len(args) |->
        IF i > Len(bnds) THEN args[i]
        ELSE LET lo == bnds[i][1]
                 hi == bnds[i][2]
             IN IF ~IsNone(lo) /\ args[i] < Val(lo) THEN Val(lo)
                ELSE IF ~IsNone(hi) /\ args[i] > Val(hi)
                     THEN (IF IsNone(lo) THEN args[i] ELSE Val(lo))
                     ELSE args[i]]

\* BasicModel.fit_to_bounds: a copy of args, each entry that has a bound
\* (zip stops at the shorter of args and bounds) clipped into it.
fit_to_bounds(args, bnds) ==
    [i \in 1..Len(args) |->
        IF i > Len(bnds) THEN args[i]
        ELSE LET lo == bnds[i][1]
                 hi == bnds[i][2]
             IN IF ~IsNone(lo) /\ args[i] < Val(lo) THEN Val(lo)
                ELSE IF ~IsNone(hi) /\ args[i] > Val(hi) THEN Val(hi)
                     ELSE args[i]]

\* fit_to_bounds starts with args = list(args): the caller's vector is left as is.
caller_after_fit(args, bnds) == args

\* compute_probabilities and the sum of compute_loglikelihood, for clipped
\* parameters: the mixture of truncated Poissons is abstracted to a surface with
\* its maximum at (h.tc, h.te) that falls off linearly, h.wc and h.we per
\* thousandth of coverage and of error rate, divided by h.k.
loglikelihood_at(h, a) ==
    -((h.wc * Abs(a[1] - h.tc) + h.we * Abs(a[2] - h.te)) \div h.k)

\* BasicModel.compute_loglikelihood(*args): the vector handed to
\* compute_probabilities, and the value returned.
compute_loglikelihood_passed(args, bnds) == fit_to_bounds(args, bnds)
compute_loglikelihood(h, args, bnds) ==
    loglikelihood_at(h, compute_loglikelihood_passed(args, bnds))

----------------------------------------------------------------------------
(* src/covest.py: initial_grid *)

\* config.INITIAL_GRID_STEP and config.INITIAL_GRID_COUNT (config.py is not
\* part of the sources at hand; the step is "a small constant > 1")
INITIAL_GRID_STEP == 3

\* fix = [None] * len(initial_guess) when no mask is given (lines 291, 358)
NoFix(n) == [i \in 1..n |-> None]
FixOrNone(fx, n) == IF IsNone(fx) THEN NoFix(n) ELSE Val(fx)

\* initial_grid.generate_grid.apply_bounds
apply_bounds(interval, i, bnds) ==
    IF Len(bnds) < i THEN interval
    ELSE LET lb == bnds[i][1]
             rb == bnds[i][2]
             li == IF ~IsNone(lb) THEN Max2(interval[1], Val(lb)) ELSE interval[1]
             ri == IF ~IsNone(rb) THEN Min2(interval[2], Val(rb)) ELSE interval[2]
         IN <<li, ri>>

\* random.uniform(a, b) = a + (b - a) * random(): an end or the middle, also
\* when a > b
uniform(a, b) == {a, a + Quot(b - a, 2), b}

\* the window of coordinate i: (var / step, var * step)
window(var, st) == <<Quot(var, st), var * st>>

\* initial_grid.generate_grid.generate_random_params: the vectors it can return
generate_random_params(initial_guess, st, bnds, fx) ==
    LET n == Len(initial_guess)
        iv == [i \in 1..n |-> apply_bounds(window(initial_guess[i], st), i, bnds)]
        picks(i) == IF IsNone(fx[i]) THEN uniform(iv[i][1], iv[i][2])
                    ELSE {Val(fx[i])}
    IN {v \in [1..n -> UNION {picks(i) : i \in 1..n}] :
            \A i \in 1..n : v[i] \in picks(i)}

\* initial_grid: the lists it can return
initial_grid(initial_guess, count, bnds, fx) ==
    LET f == FixOrNone(fx, Len(initial_guess))
        rnd == generate_random_params(initial_guess, INITIAL_GRID_STEP, bnds, f)
    IN IF count < 1 THEN {<<>>}
       ELSE {<<initial_guess>> \o tl : tl \in [1..(count - 1) -> rnd]}

----------------------------------------------------------------------------
(* src/covest.py: CoverageEstimator.likelihood_f and optimize_grid *)

\* likelihood_f(x): the fixed values replace their coordinates, the error rate
\* is divided by err_scale, and the log-likelihood is negated.
likelihood_f(h, bnds, fx, scale, x) ==
    LET a == IF IsNone(fx) THEN x
             ELSE [i \in 1..Len(x) |->
                      IF IsNone(Val(fx)[i]) THEN x[i] ELSE Val(Val(fx)[i])]
        b == [a EXCEPT ![2] = Quot(a[2], scale)]
    IN -compute_loglikelihood(h, b, bnds)

\* config.STEP (1.1) and config.GRID_DEPTH; the refiner's thresholds of lines
\* 302 and 317: diff > 0.1, step > 1.001, diff < 1.0
STEP == SQ + SQ \div 10
GRID_DEPTH == 1
DiffThreshold == OQ \div 10
StepThreshold == SQ + SQ \div 1000
ShrinkBelow == OQ

\* step ** n for n >= 0, and var * step ** d
RECURSIVE step_pow(_, _)
step_pow(st, n) == IF n = 0 THEN SQ ELSE (step_pow(st, n - 1) * st) \div SQ
scaled(var, st, d) ==
    IF d >= 0 THEN Quot(var * step_pow(st, d), SQ)
    ELSE Quot(var * ((SQ * SQ) \div step_pow(st, -d)), SQ)

\* optimize_grid.generate_grid.generate_grid_single: var * step ** d for d in
\* -max_depth..max_depth without 0, or the fixed value alone
generate_grid_single(var, fixv, st, max_depth) ==
    IF IsNone(fixv)
    THEN [j \in 1..(2 * max_depth) |->
             scaled(var, st, IF j <= max_depth THEN j - max_depth - 1
                                               ELSE j - max_depth)]
    ELSE <<Val(fixv)>>

\* optimize_grid.generate_grid.filter_bounds
filter_bounds(var_grid, i, bnds) ==
    IF Len(bnds) < i THEN var_grid
    ELSE SelectSeq(var_grid,
                   LAMBDA v : /\ (IsNone(bnds[i][1]) \/ v >= Val(bnds[i][1]))
                              /\ (IsNone(bnds[i][2]) \/ v <= Val(bnds[i][2])))

\* itertools.product(*var_grids): the last coordinate varies fastest
RECURSIVE product(_)
product(var_grids) ==
    IF var_grids = <<>> THEN << <<>> >>
    ELSE LET hd == Head(var_grids)
             rest == product(Tail(var_grids))
         IN [k \in 1..(Len(hd) * Len(rest)) |->
                <<hd[((k - 1) \div Len(rest)) + 1]>> \o rest[((k - 1) % Len(rest)) + 1]]

\* optimize_grid.generate_grid
generate_grid(args, st, max_depth, bnds, fx) ==
    product([i \in 1..Len(args) |->
                filter_bounds(generate_grid_single(args[i], fx[i], st, max_depth),
                              i, bnds)])

\* sgn = -1 if maximize else 1
sgn(mx) == IF mx THEN -1 ELSE 1

\* the objective handed to optimize_grid: the estimator's likelihood_f, or its
\* negation (the log-likelihood) when the caller maximizes
fn(x) ==
    IF maximize THEN -likelihood_f(hist, bounds, fix, err_scale, x)
    ELSE likelihood_f(hist, bounds, fix, err_scale, x)

\* A plausible slip: "and" for "or".
loop_condition_and(d, st) == d > DiffThreshold /\ st > StepThreshold

\* line 302: while diff > 0.1 or step > 1.001
loop_condition(d, st) == d > DiffThreshold \/ st > StepThreshold

\* A plausible slip: "<=" for "<", so that a tie moves the best vector.
improves_or_equal(val, mv, mx) == sgn(mx) * val <= mv

\* A plausible slip: the comparison of line 313 reversed.
improves_reversed(val, mv, mx) == sgn(mx) * val > mv

\* line 313: if sgn * val < min_val
improves(val, mv, mx) == sgn(mx) * val < mv

\* the nearest representable value, a tie going to the even one, as the
\* floating-point addition of line 318 rounds
round_half_even(n, d) ==
    LET q == n \div d
        rem == n % d
    IN IF 2 * rem < d THEN q
       ELSE IF 2 * rem > d THEN q + 1
       ELSE IF q % 2 = 0 THEN q ELSE q + 1

\* A plausible slip: the "1 +" of line 318 left out.
shrunk_no_offset(d, st) ==
    IF d < ShrinkBelow THEN round_half_even((st - SQ) * 3, 4) ELSE st

\* lines 317-318: if diff < 1.0: step = 1 + (step - 1) * 0.75
shrunk(d, st) ==
    IF d < ShrinkBelow THEN SQ + round_half_even((st - SQ) * 3, 4) ELSE st

\* lines 291-300: the objective at the initial guess; the loop's variables
GInit ==
    /\ UNCHANGED <<gridFrame, intr>>
    /\ g_pc = "g_init"
    /\ min_val' = sgn(maximize) * fn(g_guess)
    /\ min_args' = g_guess
    /\ step' = STEP
    /\ diff' = OQ
    /\ n_iter' = 0
    /\ g_pc' = "g_while"
    /\ UNCHANGED <<maximize, g_guess, grid, g_res, g_k, g_ret, g_run, g_first>>

\* lines 302-307: the loop goes on; the grid around min_args is built and its
\* points are handed to the pool
GIterate ==
    /\ UNCHANGED <<gridFrame, intr>>
    /\ g_pc = "g_while"
    /\ loop_condition(diff, step)
    /\ n_iter' = n_iter + 1
    /\ diff' = 0
    /\ grid' = generate_grid(min_args, step, GRID_DEPTH, bounds,
                              FixOrNone(fix, Len(min_args)))
    /\ g_res' = [k \in 1..Len(grid') |-> None]
    /\ g_pc' = "g_wave"
    /\ UNCHANGED <<maximize, g_guess, min_val, min_args, step, g_k, g_ret, g_run, g_first>>

\* A plausible slip: a worker that keeps the best value itself, writing the
\* refiner's state from inside the pool.
GWorker_shared ==
    /\ UNCHANGED <<gridFrame, intr>>
    /\ g_pc = "g_wave"
    /\ \E k \in 1..Len(grid) :
          /\ IsNone(g_res[k])
          /\ g_res' = [g_res EXCEPT ![k] = Some(fn(grid[k]))]
          /\ IF improves(fn(grid[k]), min_val, maximize)
             THEN /\ min_val' = sgn(maximize) * fn(grid[k])
                  /\ min_args' = grid[k]
             ELSE UNCHANGED <<min_val, min_args>>
    /\ UNCHANGED <<maximize, g_guess, g_pc, step, diff, n_iter,
                   grid, g_k, g_ret, g_run, g_first>>

\* unpack_call in a worker of the pool: one grid point's value
GWorker ==
    /\ UNCHANGED <<gridFrame, intr>>
    /\ g_pc = "g_wave"
    /\ \E k \in 1..Len(grid) :
          /\ IsNone(g_res[k])
          /\ g_res' = [g_res EXCEPT ![k] = Some(fn(grid[k]))]
    /\ UNCHANGED <<maximize, g_guess, g_pc, min_val, min_args, step, diff, n_iter,
                   grid, g_k, g_ret, g_run, g_first>>

\* line 310: pool.map returns once every worker has
GMapReturn ==
    /\ UNCHANGED <<gridFrame, intr>>
    /\ g_pc = "g_wave"
    /\ \A k \in 1..Len(grid) : ~IsNone(g_res[k])
    /\ g_k' = 1
    /\ g_pc' = "g_reduce"
    /\ UNCHANGED <<maximize, g_guess, min_val, min_args, step, diff, n_iter, grid,
                   g_res, g_ret, g_run, g_first>>

\* lines 311-316: one turn of the reduction loop
GReduce ==
    /\ UNCHANGED <<gridFrame, intr>>
    /\ g_pc = "g_reduce"
    /\ g_k <= Len(grid)
    /\ LET val == Val(g_res[g_k])
       IN IF improves(val, min_val, maximize)
          THEN /\ diff' = diff + (min_val - val)
               /\ min_val' = sgn(maximize) * val
               /\ min_args' = grid[g_k]
          ELSE UNCHANGED <<diff, min_val, min_args>>
    /\ g_k' = g_k + 1
    /\ UNCHANGED <<maximize, g_guess, g_pc, step, n_iter, grid, g_res, g_ret, g_run,
                   g_first>>

\* lines 317-318: the end of an iteration
GIterationEnd ==
    /\ UNCHANGED <<gridFrame, intr>>
    /\ g_pc = "g_reduce"
    /\ g_k > Len(grid)
    /\ step' = shrunk(diff, step)
    /\ g_pc' = "g_while"
    /\ UNCHANGED <<maximize, g_guess, min_val, min_args, diff, n_iter, grid, g_res,
                   g_k, g_ret, g_run, g_first>>

\* line 302: the loop ends
GLoopExit ==
    /\ UNCHANGED <<gridFrame, intr>>
    /\ g_pc = "g_while"
    /\ ~loop_condition(diff, step)
    /\ g_pc' = "g_return"
    /\ UNCHANGED <<maximize, g_guess, min_val, min_args, step, diff, n_iter, grid,
                   g_res, g_k, g_ret, g_run, g_first>>

\* A KeyboardInterrupt inside the try of lines 301-322: caught, the loop is left
GInterruptLoop ==
    /\ UNCHANGED gridFrame
    /\ intr = "none"
    /\ g_pc \in {"g_while", "g_wave", "g_reduce"}
    /\ intr' = g_pc
    /\ g_pc' = "g_return"
    /\ UNCHANGED <<maximize, g_guess, min_val, min_args, step, diff, n_iter, grid,
                   g_res, g_k, g_ret, g_run, g_first>>

\* A KeyboardInterrupt in lines 291-300, before the try: it leaves optimize_grid
GInterruptInit ==
    /\ UNCHANGED gridFrame
    /\ intr = "none"
    /\ g_pc = "g_init"
    /\ intr' = g_pc
    /\ g_pc' = "g_raised"
    /\ UNCHANGED <<maximize, g_guess, min_val, min_args, step, diff, n_iter, grid,
                   g_res, g_k, g_ret, g_run, g_first>>

----------------------------------------------------------------------------
(* src/covest.py: CoverageEstimator._optimize and compute_coverage *)

\* _optimize lines 146-147: the model's bounds with the error rate's upper end
\* multiplied by err_scale
optimizer_bounds(bnds, scale) ==
    [bnds EXCEPT ![2] = <<bnds[2][1], IF IsNone(bnds[2][2]) THEN None
                                      ELSE Some(Val(bnds[2][2]) * scale)>>]

\* _optimize: what scipy's bounded minimize can return from the start x0.  The
\* minimizer is not part of the sources: any of a vector inside the bounds, its
\* objective value and a success flag.  The vectors tried are the start clipped
\* into the bounds, and that vector with its free coordinates moved to the
\* surface's optimum; a coordinate the objective does not depend on (a fixed
\* one) stays where it started.
optimize(h, bnds, fx, scale, x0) ==
    LET ob == optimizer_bounds(bnds, scale)
        x == fit_to_bounds(x0, ob)
        f == FixOrNone(fx, Len(x0))
        xc == IF IsNone(f[1]) THEN fit_to_bounds([x EXCEPT ![1] = h.tc], ob) ELSE x
        xe == IF IsNone(f[2]) THEN fit_to_bounds([xc EXCEPT ![2] = h.te * scale], ob)
              ELSE xc
    IN {[x |-> v, fun |-> likelihood_f(h, bnds, fx, scale, v), success |-> ok] :
            v \in {x, xe}, ok \in BOOLEAN}

\* config.INITIAL_GRID_COUNT, the default of initial_grid's count
INITIAL_GRID_COUNT == 2

\* A plausible slip: ">=" for ">", so that the last of equal results wins.
is_better_or_equal(mr, fun) == IsNone(mr) \/ Val(mr) >= fun

\* line 177: if min_r is None or min_r > res.fun
is_better(mr, fun) == IsNone(mr) \/ Val(mr) > fun

\* A plausible slip: the refiner also runs in pre mode.
needs_grid_search_any(gst, ok) == gst # "none" /\ ~ok

\* line 182: if grid_search_type == self.GRID_SEARCH_TYPE_POST and not success
needs_grid_search(gst, ok) == gst = "post" /\ ~ok

\* A plausible slip: the call of optimize_grid left outside the try.
in_try_before_refiner(p) ==
    p \in {"start", "optimize", "fanout", "reduce", "assign", "check_post"}

\* lines 163-189: the positions of compute_coverage inside its try
in_try(p) ==
    p \in {"start", "optimize", "fanout", "reduce", "assign", "check_post", "refine"}

\* lines 165-167: mode none, the single optimization is begun
CCStartSingle ==
    /\ UNCHANGED <<ccFrame, gridVars, intr>>
    /\ pc = "start"
    /\ grid_search_type = "none"
    /\ pc' = "optimize"
    /\ UNCHANGED <<guess, grid_search_type, r, success, min_r, params, results,
                   res_idx, ret>>

\* lines 167-169: it returns
CCOptimizeSingle ==
    /\ UNCHANGED <<ccFrame, gridVars, intr>>
    /\ pc = "optimize"
    /\ \E res \in optimize(hist, bounds, fix, err_scale, r) :
          /\ results' = <<Some(res)>>
          /\ r' = res.x
          /\ success' = res.success
    /\ pc' = "check_post"
    /\ UNCHANGED <<guess, grid_search_type, min_r, params, res_idx, ret>>

\* lines 171-175: the starting points, handed to the pool
CCStartGrid ==
    /\ UNCHANGED <<ccFrame, gridVars, intr>>
    /\ pc = "start"
    /\ grid_search_type # "none"
    /\ params' \in initial_grid(r, INITIAL_GRID_COUNT, bounds, None)
    /\ results' = [k \in 1..Len(params') |-> None]
    /\ min_r' = None
    /\ pc' = "fanout"
    /\ UNCHANGED <<guess, grid_search_type, r, success, res_idx, ret>>

\* self._optimize in a worker of the pool
CCWorker ==
    /\ UNCHANGED <<ccFrame, gridVars, intr>>
    /\ pc = "fanout"
    /\ \E k \in 1..Len(params) :
          /\ IsNone(results[k])
          /\ \E res \in optimize(hist, bounds, fix, err_scale, params[k]) :
                 results' = [results EXCEPT ![k] = Some(res)]
    /\ UNCHANGED <<guess, grid_search_type, pc, r, success, min_r, params, res_idx,
                   ret>>

\* line 175: pool.map returns once every worker has
CCMapReturn ==
    /\ UNCHANGED <<ccFrame, gridVars, intr>>
    /\ pc = "fanout"
    /\ \A k \in 1..Len(params) : ~IsNone(results[k])
    /\ res_idx' = 1
    /\ pc' = "reduce"
    /\ UNCHANGED <<guess, grid_search_type, r, success, min_r, params, results, ret>>

\* lines 176-178: the next result is compared; a better one sets min_r
CCReduce ==
    /\ UNCHANGED <<ccFrame, gridVars, intr>>
    /\ pc = "reduce"
    /\ res_idx <= Len(results)
    /\ IF is_better(min_r, Val(results[res_idx]).fun)
       THEN /\ min_r' = Some(Val(results[res_idx]).fun)
            /\ pc' = "assign"
            /\ UNCHANGED res_idx
       ELSE /\ res_idx' = res_idx + 1
            /\ UNCHANGED <<min_r, pc>>
    /\ UNCHANGED <<guess, grid_search_type, r, success, params, results, ret>>

\* lines 179-180: r and success follow
CCAssign ==
    /\ UNCHANGED <<ccFrame, gridVars, intr>>
    /\ pc = "assign"
    /\ r' = Val(results[res_idx]).x
    /\ success' = Val(results[res_idx]).success
    /\ res_idx' = res_idx + 1
    /\ pc' = "reduce"
    /\ UNCHANGED <<guess, grid_search_type, min_r, params, results, ret>>

\* line 176: the loop over results ends
CCReduceEnd ==
    /\ UNCHANGED <<ccFrame, gridVars, intr>>
    /\ pc = "reduce"
    /\ res_idx > Len(results)
    /\ pc' = "check_post"
    /\ UNCHANGED <<guess, grid_search_type, r, success, min_r, params, results,
                   res_idx, ret>>

\* lines 182-187: optimize_grid is called with r (params and results are not
\* read again)
CCStartRefine ==
    /\ UNCHANGED <<ccFrame, intr>>
    /\ pc = "check_post"
    /\ needs_grid_search(grid_search_type, success)
    /\ pc' = "refine"
    /\ g_guess' = r
    /\ g_pc' = "g_init"
    /\ params' = <<>>
    /\ results' = <<>>
    /\ min_r' = None
    /\ res_idx' = 0
    /\ UNCHANGED <<guess, grid_search_type, r, success, ret>>
    /\ UNCHANGED <<maximize, min_val, min_args, step, diff, n_iter, grid, g_res, g_k,
                   g_ret, g_run, g_first>>

\* line 188: return r, without a grid search
CCReturn ==
    /\ UNCHANGED <<ccFrame, gridVars, intr>>
    /\ pc = "check_post"
    /\ ~needs_grid_search(grid_search_type, success)
    /\ ret' = Some(r)
    /\ pc' = "done"
    /\ params' = <<>>
    /\ results' = <<>>
    /\ min_r' = None
    /\ res_idx' = 0
    /\ UNCHANGED <<guess, grid_search_type, r, success>>

\* lines 184 and 188: optimize_grid returns min_args (line 325), which is r and
\* is returned
CCRefineReturn ==
    /\ UNCHANGED <<ccFrame, intr>>
    /\ pc = "refine"
    /\ g_pc = "g_return"
    /\ g_ret' = Some(min_args)
    /\ g_pc' = "g_done"
    /\ r' = min_args
    /\ ret' = Some(min_args)
    /\ pc' = "done"
    /\ UNCHANGED <<guess, grid_search_type, success, min_r, params, results, res_idx>>
    /\ UNCHANGED <<maximize, g_guess, min_val, min_args, step, diff, n_iter, grid,
                   g_res, g_k, g_run, g_first>>

\* A KeyboardInterrupt in compute_coverage's own code: lines 189-190 return r
\* when it arrives inside the try
CCInterrupt ==
    /\ UNCHANGED <<ccFrame, gridVars>>
    /\ intr = "none"
    /\ pc \in {"start", "optimize", "fanout", "reduce", "assign", "check_post"}
    /\ intr' = pc
    /\ IF in_try(pc)
       THEN ret' = Some(r) /\ pc' = "done"
       ELSE ret' = None /\ pc' = "raised"
    /\ UNCHANGED <<guess, grid_search_type, r, success, min_r, params, results,
                   res_idx>>

\* The KeyboardInterrupt that left optimize_grid reaches compute_coverage
CCRefineRaised ==
    /\ UNCHANGED <<ccFrame, intr>>
    /\ pc = "refine"
    /\ g_pc = "g_raised"
    /\ g_pc' = "g_done"
    /\ IF in_try(pc)
       THEN ret' = Some(r) /\ pc' = "done"
       ELSE ret' = None /\ pc' = "raised"
    /\ UNCHANGED <<guess, grid_search_type, r, success, min_r, params, results,
                   res_idx>>
    /\ UNCHANGED <<maximize, g_guess, min_val, min_args, step, diff, n_iter, grid,
                   g_res, g_k, g_ret, g_run, g_first>>

----------------------------------------------------------------------------
(* Inputs *)

\* the optional max-coverage bounds tried (-M takes an int)
MaxCovs == {None, Some(5 * PQ)}
MinSingleCopyRatios == {3 * (PQ \div 10)}
Hists ==
    { [tc |-> 4 * PQ, te |-> 20, wc |-> 1, we |-> 1, k |-> 20],
      [tc |-> 2 * PQ, te |-> 0, wc |-> 1, we |-> 2, k |-> 2] }
\* a steep surface as well, for the refiner on its own
GridHists == Hists \cup { [tc |-> 2500, te |-> 0, wc |-> 5, we |-> 1, k |-> 1] }

\* vectors given to compute_loglikelihood: in, on and out of the bounds
LLCoverages == {-PQ, 5, 10, 3 * PQ, 5 * PQ, 6 * PQ}
LLErrorRates == {-5, 0, 200, 500, 600}
LLRatios == {-1, 300, 1200}
LLArgs(cls) ==
    IF cls = "BasicModel"
    THEN {<<c, e>> : c \in LLCoverages, e \in LLErrorRates}
    ELSE {<<c, e, q1, 500, q>> : c \in {5, 6 * PQ}, e \in {-5, 600},
                                  q1 \in LLRatios, q \in LLRatios}

----------------------------------------------------------------------------
(* The parts of the state a specification does not use *)

IgIdle ==
    /\ ig_guess = <<>>
    /\ ig_count = 0
    /\ ig_fix = None
    /\ ig_grid = <<>>
    /\ ig_pc = "idle"

ModelIdle ==
    /\ m_args = <<>>
    /\ m_passed = None
    /\ m_ll = None
    /\ m_pc = "idle"

EstIdle ==
    /\ fix = None
    /\ err_scale = 1
    /\ intr = "none"

GridIdle ==
    /\ maximize = FALSE
    /\ g_guess = <<>>
    /\ g_pc = "idle"
    /\ min_val = 0
    /\ min_args = <<>>
    /\ step = 0
    /\ diff = 0
    /\ n_iter = 0
    /\ grid = <<>>
    /\ g_res = <<>>
    /\ g_k = 0
    /\ g_ret = None
    /\ g_run = 0
    /\ g_first = None

CCIdle ==
    /\ guess = <<>>
    /\ grid_search_type = "none"
    /\ pc = "idle"
    /\ r = <<>>
    /\ success = TRUE
    /\ min_r = None
    /\ params = <<>>
    /\ results = <<>>
    /\ res_idx = 0
    /\ ret = None

----------------------------------------------------------------------------
(* SpecModel: calls of compute_loglikelihood *)

InitModel ==
    /\ m_cls \in {"BasicModel", "RepeatsModel"}
    /\ m_max_cov \in MaxCovs
    /\ \E ms \in MinSingleCopyRatios :
           bounds = ModelBounds(m_cls, m_max_cov, ms)
    /\ hist \in Hists
    /\ m_args \in LLArgs(m_cls)
    /\ m_passed = None
    /\ m_ll = None
    /\ m_pc = "call"
    /\ IgIdle
    /\ EstIdle
    /\ GridIdle
    /\ CCIdle

\* compute_loglikelihood line 101: args = self.fit_to_bounds(args)
LLFit ==
    /\ m_pc = "call"
    /\ m_passed' = compute_loglikelihood_passed(m_args, bounds)
    /\ m_args' = caller_after_fit(m_args, bounds)
    /\ m_pc' = "fitted"
    /\ UNCHANGED <<envVars, m_ll, igVars, estVars, gridVars, intr, ccVars>>

\* lines 102-107: the probabilities of the clipped vector, and their score
LLReturn ==
    /\ m_pc = "fitted"
    /\ m_ll' = Some(loglikelihood_at(hist, m_passed))
    /\ m_pc' = "returned"
    /\ UNCHANGED <<envVars, m_args, m_passed, igVars, estVars, gridVars, intr, ccVars>>

NextModel == LLFit \/ LLReturn

SpecModel == InitModel /\ [][NextModel]_vars

----------------------------------------------------------------------------
(* SpecInitGrid: calls of initial_grid *)

\* the largest count tried
MaxCount == 2

IGGuesses == {<<c, e>> : c \in {-3 * PQ, 0, 3, 3 * PQ, 30 * PQ}, e \in {0, 10, 900}}
IGFixes == {None, Some(<<None, Some(0)>>), Some(<<Some(2 * PQ), None>>)}

InitInitGrid ==
    /\ m_cls = "BasicModel"
    /\ m_max_cov \in MaxCovs
    /\ \E ms \in MinSingleCopyRatios :
           bounds = ModelBounds(m_cls, m_max_cov, ms)
    /\ hist \in Hists
    /\ ModelIdle
    /\ ig_guess \in IGGuesses
    /\ ig_count \in 0..MaxCount
    /\ ig_fix \in IGFixes
    /\ ig_grid = <<>>
    /\ ig_pc = "call"
    /\ EstIdle
    /\ GridIdle
    /\ CCIdle

IGReturn ==
    /\ ig_pc = "call"
    /\ ig_grid' \in initial_grid(ig_guess, ig_count, bounds, ig_fix)
    /\ ig_pc' = "returned"
    /\ UNCHANGED <<envVars, modelVars, ig_guess, ig_count, ig_fix, estVars, gridVars, intr, ccVars>>

NextInitGrid == IGReturn

SpecInitGrid == InitInitGrid /\ [][NextInitGrid]_vars

----------------------------------------------------------------------------
(* SpecGrid: optimize_grid called on its own, and once more from its result *)

\* the last one has an error rate above the bounds, as compute_coverage can
\* hand it on: every grid around it is empty
GGuesses == {<<3 * PQ, 10>>, <<PQ, 40>>, <<4800, 0>>, <<3 * PQ, 600>>}
Fixes == {None, Some(<<None, Some(0)>>)}
ErrScales == {1, 2}

InitGrid ==
    /\ m_cls = "BasicModel"
    /\ m_max_cov \in MaxCovs
    /\ \E ms \in MinSingleCopyRatios :
           bounds = ModelBounds(m_cls, m_max_cov, ms)
    /\ hist \in GridHists
    /\ ModelIdle
    /\ IgIdle
    /\ fix \in Fixes
    /\ err_scale \in ErrScales
    /\ intr = "none"
    /\ maximize \in BOOLEAN
    /\ g_guess \in GGuesses
    /\ g_pc = "g_init"
    /\ min_val = 0
    /\ min_args = <<>>
    /\ step = 0
    /\ diff = 0
    /\ n_iter = 0
    /\ grid = <<>>
    /\ g_res = <<>>
    /\ g_k = 0
    /\ g_ret = None
    /\ g_run = 1
    /\ g_first = None
    /\ CCIdle

\* line 325: return min_args; a first run that was not interrupted is followed
\* by a second one from its result
GReturnAgain ==
    /\ UNCHANGED <<gridFrame, intr>>
    /\ g_pc = "g_return"
    /\ g_run = 1
    /\ intr = "none"
    /\ g_ret' = Some(min_args)
    /\ g_first' = Some(min_args)
    /\ g_run' = 2
    /\ g_guess' = min_args
    /\ g_pc' = "g_init"
    /\ UNCHANGED <<maximize, min_val, min_args, step, diff, n_iter, grid, g_res, g_k>>

GReturnLast ==
    /\ UNCHANGED <<gridFrame, intr>>
    /\ g_pc = "g_return"
    /\ g_run = 2 \/ intr # "none"
    /\ g_ret' = Some(min_args)
    /\ g_pc' = "g_done"
    /\ UNCHANGED <<maximize, g_guess, min_val, min_args, step, diff, n_iter, grid,
                   g_res, g_k, g_run, g_first>>

NextGrid ==
    \/ GInit
    \/ GIterate
    \/ GWorker
    \/ GMapReturn
    \/ GReduce
    \/ GIterationEnd
    \/ GLoopExit
    \/ GReturnAgain
    \/ GReturnLast
    \/ GInterruptLoop
    \/ GInterruptInit

SpecGrid == InitGrid /\ [][NextGrid]_vars

\* optimize_grid when no KeyboardInterrupt is delivered.  The interpreter runs
\* the parent's next statement, and the pool runs every worker of a wave, so a
\* step that can be taken is taken.
NextGridRun ==
    \/ GInit
    \/ GIterate
    \/ GWorker
    \/ GMapReturn
    \/ GReduce
    \/ GIterationEnd
    \/ GLoopExit
    \/ GReturnAgain
    \/ GReturnLast

SpecGridRun == InitGrid /\ [][NextGridRun]_vars /\ WF_vars(NextGridRun)

----------------------------------------------------------------------------
(* Spec: CoverageEstimator.compute_coverage *)

\* the last one has an error rate that the scaling of main() (guess[1] *=
\* err_scale) put above the model's own upper bound of 0.5
CCGuesses == {<<3 * PQ, 10>>, <<PQ, 0>>, <<3 * PQ, 600>>}

Init ==
    /\ m_cls = "BasicModel"
    /\ m_max_cov \in MaxCovs
    /\ \E ms \in MinSingleCopyRatios :
           bounds = ModelBounds(m_cls, m_max_cov, ms)
    /\ hist \in Hists
    /\ ModelIdle
    /\ IgIdle
    /\ GridIdle
    /\ fix \in Fixes
    /\ err_scale \in ErrScales
    /\ intr = "none"
    /\ guess \in CCGuesses
    /\ grid_search_type \in {"none", "pre", "post"}
    /\ pc = "start"
    /\ r = guess
    /\ success = TRUE
    /\ min_r = None
    /\ params = <<>>
    /\ results = <<>>
    /\ res_idx = 0
    /\ ret = None

Next ==
    \/ CCStartSingle
    \/ CCOptimizeSingle
    \/ CCStartGrid
    \/ CCWorker
    \/ CCMapReturn
    \/ CCReduce
    \/ CCAssign
    \/ CCReduceEnd
    \/ CCStartRefine
    \/ CCReturn
    \/ CCRefineReturn
    \/ CCInterrupt
    \/ CCRefineRaised
    \/ GInit
    \/ GIterate
    \/ GWorker
    \/ GMapReturn
    \/ GReduce
    \/ GIterationEnd
    \/ GLoopExit
    \/ GInterruptLoop
    \/ GInterruptInit

Spec == Init /\ [][Next]_vars

----------------------------------------------------------------------------
(* Claims *)

InBound(v, b) ==
    /\ IsNone(b[1]) \/ v >= Val(b[1])
    /\ IsNone(b[2]) \/ v <= Val(b[2])

ClippedFrom(v, a, b) ==
    IF ~IsNone(b[1]) /\ a < Val(b[1]) THEN v = Val(b[1])
    ELSE IF ~IsNone(b[2]) /\ a > Val(b[2]) THEN v = Val(b[2])
    ELSE v = a

C10_State ==
    m_pc \in {"fitted", "returned"} =>
        /\ Len(m_passed) = Len(m_args)
        /\ \A i \in 1..Len(bounds) :
               /\ InBound(m_passed[i], bounds[i])
               /\ ClippedFrom(m_passed[i], m_args[i], bounds[i])
        /\ fit_to_bounds(m_passed, bounds) = m_passed

\* C10: every value compute_loglikelihood hands to compute_probabilities lies
\* in its bound (below the lower end gives the lower end, above the upper end
\* the upper end, inside is unchanged), clipping again changes nothing, and the
\* caller's vector is never modified.
C10_ClippedBeforeEvaluation ==
    /\ []C10_State
    /\ [][m_args' = m_args]_vars

\* a call whose vector is below a bound in one coordinate and above in another
C10_Witness ==
    /\ m_pc = "returned"
    /\ \E i, j \in 1..Len(bounds) :
          /\ ~IsNone(bounds[i][1]) /\ m_args[i] < Val(bounds[i][1])
          /\ ~IsNone(bounds[j][2]) /\ m_args[j] > Val(bounds[j][2])
          /\ m_passed[i] = Val(bounds[i][1])
          /\ m_passed[j] = Val(bounds[j][2])

\* C8: every candidate of initial_grid after the first has each free parameter
\* inside the window [guess_i / step, guess_i * step] and inside bounds[i],
\* whatever the guess.
C8_CandidatesInWindowAndBounds ==
    ig_pc = "returned" =>
        \A j \in 2..Len(ig_grid) : \A i \in 1..Len(ig_guess) :
            IsNone(FixOrNone(ig_fix, Len(ig_guess))[i]) =>
                /\ window(ig_guess[i], INITIAL_GRID_STEP)[1] <= ig_grid[j][i]
                /\ ig_grid[j][i] <= window(ig_guess[i], INITIAL_GRID_STEP)[2]
                /\ InBound(ig_grid[j][i], bounds[i])

\* the objective in the minimised sense, sgn * fn
objective(x) == sgn(maximize) * fn(x)

\* C5: an interruption at any point of optimize_grid makes it return the best
\* vector found so far; it never raises the interruption to its caller.
C5_InterruptNeverRaised ==
    /\ g_pc # "g_raised"
    /\ (g_pc = "g_done" /\ intr # "none") => g_ret = Some(min_args)

C6_State ==
    (g_pc \in {"g_return", "g_done"} /\ intr = "none") =>
        /\ n_iter >= 1
        /\ diff <= OQ \div 10
        /\ step <= SQ + SQ \div 1000

C6_Step ==
    (g_pc = "g_while" /\ g_pc' # "g_while" /\ intr' = "none") =>
        /\ (g_pc' = "g_wave") = (diff > OQ \div 10 \/ step > SQ + SQ \div 1000)
        /\ (g_pc' = "g_return") = ~(diff > OQ \div 10 \/ step > SQ + SQ \div 1000)
        /\ (g_pc' = "g_wave") => n_iter' = n_iter + 1

\* C6: without interruption optimize_grid runs at least one iteration, begins a
\* further one exactly when the last iteration's diff is > 0.1 or the step is
\* > 1.001, and so returns with diff <= 0.1 and step <= 1.001.
C6_LoopCondition ==
    /\ []C6_State
    /\ [][C6_Step]_vars

\* an uninterrupted return after an iteration that was begun for its diff alone
C6_Witness ==
    /\ g_pc = "g_return"
    /\ intr = "none"
    /\ n_iter > 17

\* C7 as stated: running optimize_grid again from the vector an uninterrupted
\* run returned improves the objective by at most 0.1 and moves no coordinate
\* by more than a factor of 1.001.
C7_IdempotentAtConvergence ==
    (g_pc = "g_done" /\ g_run = 2 /\ intr = "none") =>
        LET a == Val(g_first)
            b == Val(g_ret)
        IN /\ objective(a) - objective(b) <= OQ \div 10
           /\ \A i \in 1..Len(a) :
                  /\ b[i] * SQ <= a[i] * (SQ + SQ \div 1000)
                  /\ a[i] * SQ <= b[i] * (SQ + SQ \div 1000)

\* C7, amended: the second run never returns a vector whose objective is worse
\* than that of the first run's result, and it ends, like the first, with
\* diff <= 0.1 and step <= 1.001.
C7_RerunNeverWorse ==
    (g_pc = "g_done" /\ g_run = 2 /\ intr = "none") =>
        /\ objective(Val(g_ret)) <= objective(Val(g_first))
        /\ diff <= OQ \div 10
        /\ step <= SQ + SQ \div 1000

\* a second run that moved away from the first run's result
C7_Witness ==
    /\ g_pc = "g_done"
    /\ g_run = 2
    /\ intr = "none"
    /\ g_ret # g_first
    /\ objective(Val(g_ret)) < objective(Val(g_first))

\* the first position among the first n results with the lowest fun
FirstLowest(n) ==
    CHOOSE k \in 1..n :
        /\ \A j \in 1..n : Val(results[j]).fun >= Val(results[k]).fun
        /\ \A j \in 1..(k - 1) : Val(results[j]).fun > Val(results[k]).fun

\* the best vector once the first n results have been examined
BestExamined(n) == IF n = 0 THEN guess ELSE Val(results[FirstLowest(n)]).x

\* C1: in pre and post mode, once every optimizer run has returned and the
\* results are reduced, r and success are those of the run with the lowest
\* objective value, the earliest in starting-point order among equals, whatever
\* order the workers finished in.
C1_SelectsFirstLowest ==
    (pc = "check_post" /\ grid_search_type # "none" /\ Len(results) > 0) =>
        LET best == Val(results[FirstLowest(Len(results))])
        IN /\ r = best.x
           /\ success = best.success
           /\ min_r = Some(best.fun)

\* two runs that reached the same lowest value with different outcomes
C1_Witness ==
    /\ pc = "check_post"
    /\ grid_search_type # "none"
    /\ Len(results) >= 2
    /\ results[1] # results[2]
    /\ Val(results[1]).fun = Val(results[2]).fun
    /\ \A j \in 1..Len(results) : Val(results[j]).fun >= Val(results[1]).fun

C2_State ==
    /\ g_pc # "idle" =>
           /\ grid_search_type = "post"
           /\ ~success
           /\ pc \in {"refine", "done"}
    /\ pc = "refine" => g_guess = r
    /\ (pc = "done" /\ intr = "none") =>
           ((g_pc # "idle") = (grid_search_type = "post" /\ ~success))

C2_Step ==
    (pc = "check_post" /\ pc' # "check_post" /\ intr' = "none") =>
        IF grid_search_type = "post" /\ ~success
        THEN pc' = "refine" /\ g_pc' = "g_init" /\ g_guess' = r /\ ret' = None
        ELSE pc' = "done" /\ g_pc' = "idle" /\ ret' = Some(r) /\ r' = r

\* C2: in an uninterrupted run the refiner is invoked exactly when the mode is
\* post and the selected result has success = false, and then from the selected
\* vector; otherwise it never runs and the selected vector is returned as it is.
C2_RefinerOnlyAfterFailedPost ==
    /\ []C2_State
    /\ [][C2_Step]_vars

\* a post run whose optimization failed, refined and returned
C2_Witness ==
    /\ pc = "done"
    /\ intr = "none"
    /\ grid_search_type = "post"
    /\ ~success
    /\ g_pc = "g_done"
    /\ ret = Some(min_args)
    /\ min_args # g_guess

\* C3: with fix = [None, 0.0] the returned vector's error rate is exactly 0.0,
\* for every mode, guess and outcome of the optimizer (stated here for the runs
\* that no interruption cut short).
C3_FixedErrorRateReturned ==
    (pc = "done" /\ intr = "none" /\ fix = Some(<<None, Some(0)>>)) =>
        Val(ret)[2] = 0

\* C4: a KeyboardInterrupt at any point of compute_coverage is never propagated,
\* and the best vector so far is returned: the guess while no result has been
\* examined, else the first lowest of the results examined so far, else (in the
\* refiner) the refiner's best, which is no worse than the selected vector.
C4_InterruptReturnsBestSoFar ==
    /\ pc # "raised"
    /\ (pc = "done" /\ intr # "none") =>
          /\ ~IsNone(ret)
          /\ intr \in {"start", "optimize", "fanout"} => Val(ret) = guess
          /\ intr \in {"reduce", "assign"} => Val(ret) = BestExamined(res_idx - 1)
          /\ intr = "check_post" => Val(ret) = BestExamined(Len(results))
          /\ intr = "g_init" => Val(ret) = g_guess
          /\ intr \in {"g_while", "g_wave", "g_reduce"} =>
                 /\ Val(ret) = min_args
                 /\ objective(min_args) <= objective(g_guess)

\* an interruption in the loop over results, after the first result, which had
\* moved away from the guess, was examined
C4_Witness ==
    /\ pc = "done"
    /\ intr = "reduce"
    /\ res_idx = 2
    /\ ret = Some(Val(results[1]).x)
    /\ Val(ret) # guess

\* C9: every starting vector compute_coverage hands to the optimizer in pre and
\* post mode, the first included, has the fixed value at every fixed index.
C9_StartingVectorsKeepFixed ==
    (pc = "fanout" /\ ~IsNone(fix)) =>
        \A k \in 1..Len(params) : \A j \in 1..Len(params[k]) :
            ~IsNone(Val(fix)[j]) => params[k][j] = Val(Val(fix)[j])

\* every worker of the current wave has returned
AllReturned == \A k \in 1..Len(g_res) : ~IsNone(g_res[k])

C11_State ==
    /\ g_pc \in {"g_wave", "g_reduce"} =>
           /\ Len(g_res) = Len(grid)
           /\ \A k \in 1..Len(grid) :
                  ~IsNone(g_res[k]) => Val(g_res[k]) = fn(grid[k])
    /\ g_pc = "g_reduce" => AllReturned

C11_Step ==
    /\ (g_pc # "g_wave" /\ g_pc' = "g_wave") =>
           /\ g_pc = "g_while"
           /\ n_iter >= 1 => (AllReturned /\ g_k > Len(grid))
           /\ grid' = generate_grid(min_args, step, GRID_DEPTH, bounds,
                                     FixOrNone(fix, Len(min_args)))
           /\ \A k \in 1..Len(g_res') : IsNone(g_res'[k])
    /\ (g_pc = "g_wave" /\ g_pc' = "g_reduce") => AllReturned
    /\ (g_pc = "g_wave" /\ g_res' # g_res) =>
           /\ grid' = grid
           /\ UNCHANGED <<min_val, min_args, step, diff>>

\* C11: the waves of optimize_grid are separated by a barrier: a wave's grid is
\* built, around the current best vector, only after every worker of the wave
\* before has returned and its results were reduced; the results reduced are
\* those of the current grid; a worker's return changes none of min_val,
\* min_args, step and diff.
C11_WavesAreSeparated ==
    /\ []C11_State
    /\ [][C11_Step]_vars

\* a second wave, around a vector the first wave found, some of its workers
\* back and some still running
C11_Witness ==
    /\ g_pc = "g_wave"
    /\ n_iter = 2
    /\ min_args # g_guess
    /\ \E k \in 1..Len(g_res) : ~IsNone(g_res[k])
    /\ \E k \in 1..Len(g_res) : IsNone(g_res[k])

C12_State ==
    g_pc \in {"g_wave", "g_reduce"} => diff >= 0

C12_Step ==
    /\ (g_pc = "g_while" /\ g_pc' = "g_wave") => diff' = 0
    /\ (g_pc = "g_reduce" /\ g_k' = g_k + 1) =>
           /\ diff' - diff = min_val - min_val'
           /\ (diff' = diff) = ~(sgn(maximize) * Val(g_res[g_k]) < min_val)

\* C12: in every iteration of optimize_grid, with maximize False and True, diff
\* is the total improvement of the best value (in the minimised sense, sgn *
\* value) over the iteration: it starts at 0, grows at each grid point by what
\* that point takes off the best value, is never negative, and stays 0 exactly
\* when no grid point strictly improves on the best.
C12_DiffIsImprovement ==
    /\ []C12_State
    /\ [][C12_Step]_vars

C13_State ==
    /\ g_pc \in {"g_while", "g_wave", "g_reduce", "g_return", "g_done"} =>
           min_val = objective(min_args)
    /\ (g_pc = "g_done" /\ intr = "none") =>
           objective(Val(g_ret)) <= objective(g_guess)

C13_Step ==
    g_pc # "g_init" =>
        /\ min_val' <= min_val
        /\ min_args' # min_args =>
               /\ g_pc = "g_reduce"
               /\ sgn(maximize) * Val(g_res[g_k]) < min_val
               /\ \A j \in 1..(g_k - 1) :
                      sgn(maximize) * Val(g_res[j]) > sgn(maximize) * Val(g_res[g_k])
               /\ min_args' = grid[g_k]
               /\ objective(min_args') < objective(min_args)

\* C13: from the first evaluation on, min_val is the objective (in the minimised
\* sense) at min_args; min_val never increases; min_args changes only to a grid
\* point that is strictly better than the best so far, hence than every grid
\* point before it; and an uninterrupted run returns a vector whose objective is
\* not worse than that of the initial guess.
C13_BestIsMonotone ==
    /\ []C13_State
    /\ [][C13_Step]_vars

\* an uninterrupted run, maximizing, that left the loop with a vector better
\* than its initial guess after several iterations
C13_Witness ==
    /\ g_pc = "g_return"
    /\ intr = "none"
    /\ maximize
    /\ n_iter >= 2
    /\ min_args # g_guess
    /\ objective(min_args) < objective(g_guess)

\* C14: for BasicModel and RepeatsModel alike, a model constructed with max_cov
\* has the coverage bound (0.01, max_cov), and the coverage compute_loglikelihood
\* evaluates never exceeds max_cov.
C14_CoverageWithinMaxCov ==
    (m_pc \in {"fitted", "returned"} /\ ~IsNone(m_max_cov)) =>
        /\ bounds[1] = <<Some(PQ \div 100), m_max_cov>>
        /\ m_passed[1] <= Val(m_max_cov)

\* C15: within one compute_coverage run the refiner filters its grid against
\* the error-rate interval the optimizer was bounded by (the model's, with the
\* upper end times err_scale), so the vector the refiner starts from is inside
\* the bounds it filters against and its first grid is not empty.
C15_SameErrorRateInterval ==
    (pc = "refine" /\ g_pc \in {"g_wave", "g_reduce"} /\ n_iter = 1) =>
        /\ InBound(g_guess[2], bounds[2])
        /\ grid # <<>>

C16_State ==
    g_pc \in {"g_while", "g_wave", "g_reduce", "g_return", "g_done"} => step > SQ

C16_Step ==
    g_pc # "g_init" => step' <= step

\* C16: without interruption optimize_grid terminates and returns a vector, also
\* when its grids are empty; on the way the step never increases and stays > 1.
C16_Terminates ==
    /\ []C16_State
    /\ [][C16_Step]_vars
    /\ <>(g_pc = "g_done" /\ intr = "none" /\ g_ret = Some(min_args))

\* a run all of whose grids were empty has returned its initial guess
C16_Witness ==
    /\ g_pc = "g_done"
    /\ intr = "none"
    /\ n_iter >= 1
    /\ grid = <<>>
    /\ g_ret = Some(g_guess)
    /\ step <= SQ + SQ \div 1000

=============================================================================
